---- MODULE Spec2Model ----
(***************************************************************************)
(* Model of scripts/sync_releases.py: the release synchroniser.            *)
(*                                                                         *)
(* Python strings are sequences of tokens; a token is either a whitespace  *)
(* token (" ", "\n") or a maximal run of non-whitespace characters, so     *)
(* that str.strip() is a real operation on them.  A Python value that may  *)
(* be None is a record [t, s].  A file on disk is a record [kind, rel,     *)
(* text, obj]: text is what the file holds, obj the JSON object of a       *)
(* metadata record (only its "repository" and "tag" keys are modelled;     *)
(* release_id, html_url, published_at and fetched_at are copied verbatim   *)
(* by the code and no property below reads them), kind and rel record      *)
(* which write produced the file and for which release.                    *)
(*                                                                         *)
(* Asset names are taken to be single path components (the remote API      *)
(* does not serve names holding a path separator).                         *)
(***************************************************************************)
EXTENDS Integers, Sequences, FiniteSets, TLC

VARIABLES
    run,        \* number of the process run (the script is started once per run)
    token,      \* os.environ.get("GITHUB_TOKEN") of this run
    focus,      \* the repository whose remote serves the large release universe
    pc,         \* position of the process
    idx,        \* position of the main loop in REPOSITORIES
    changed,    \* main: the list `changed`
    release,    \* sync_repository: the response of fetch_json
    cursor,     \* sync_repository: position of `for asset in assets`
    result,     \* return value of the sync_repository call that just returned
    err,        \* the exception that ended the run, and the step that raised it
    exitCode,   \* exit code of the process
    requests,   \* number of network requests issued in this run
    contacted,  \* positions of the repositories whose metadata was requested in this run
    rootDir,    \* TARGET_ROOT exists
    fs,         \* the directories under TARGET_ROOT
    last        \* per repository: tag and outcome of its most recent sync_repository call

vars == <<run, token, focus, pc, idx, changed, release, cursor, result, err,
          exitCode, requests, contacted, rootDir, fs, last>>

(***************************************************************************)
(* Bounds                                                                  *)
(***************************************************************************)
MaxRuns == 2
MaxAssets == 2

(***************************************************************************)
(* Python values and strings                                               *)
(***************************************************************************)
PyNone == [t |-> "none", s |-> <<>>]
Str(s) == [t |-> "str", s |-> s]

Whitespace == {" ", "\n"}

RECURSIVE LStrip(_)
LStrip(s) == IF s # <<>> /\ Head(s) \in Whitespace THEN LStrip(Tail(s)) ELSE s

RECURSIVE RStrip(_)
RStrip(s) ==
    IF s # <<>> /\ s[Len(s)] \in Whitespace THEN RStrip(SubSeq(s, 1, Len(s) - 1)) ELSE s

\* str.strip()
Strip(s) == RStrip(LStrip(s))

\* str(x): str(None) is the four-letter string "None"
PyStr(v) == IF v.t = "none" THEN <<"None">> ELSE v.s

\* x or "": None and "" are falsy
OrEmpty(v) == IF v.t = "none" \/ v.s = <<>> THEN Str(<<>>) ELSE v

\* the proper prefixes of a string: what a copy that stopped early has written
ProperPrefixes(s) == {SubSeq(s, 1, n) : n \in 0..(Len(s) - 1)}

(***************************************************************************)
(* Program constants                                                       *)
(***************************************************************************)
REPOSITORIES ==
    << <<"zhaochengcube", "augment-token-mng">>,
       <<"zhaochengcube", "augment-code-auto">>,
       <<"Zheng-up", "augment-code-z">>,
       <<"Zheng-up", "zAugment">>,
       <<"wuqi-y", "auto-cursor-releases">> >>

Positions == 1..Len(REPOSITORIES)

VersionFile == <<"version.txt">>
MetadataFile == <<"metadata.json">>

ProjectDirByOwner(repo) == repo[1]
\* project_dir = TARGET_ROOT / name
ProjectDir(repo) == repo[2]

DirNames == {ProjectDir(REPOSITORIES[i]) : i \in Positions}

(***************************************************************************)
(* The remote: what fetch_json can return                                  *)
(***************************************************************************)
GoodUrl == <<"https:", "//api/assets/1">>

Asset(name, url, body) == [name |-> name, url |-> url, body |-> body]

\* the assets a release of the focus repository may list
AssetPool ==
    { Asset(PyNone, PyNone, <<"data">>),                        \* no name, no url
      Asset(Str(<<" ", "a.zip">>), Str(GoodUrl), <<"data">>),   \* name with a leading blank
      Asset(Str(VersionFile), Str(GoodUrl), <<"v1", "\n">>),    \* an asset called version.txt
      Asset(Str(<<"a.zip">>), PyNone, <<"data">>),              \* url absent or null
      Asset(Str(<<"a.zip">>), Str(<<>>), <<"data">>) }          \* url empty

RECURSIVE SeqsUpTo(_, _)
SeqsUpTo(S, n) ==
    IF n = 0 THEN {<<>>}
    ELSE LET shorter == SeqsUpTo(S, n - 1)
         IN  shorter \cup {Append(q, x) : q \in {r \in shorter : Len(r) = n - 1}, x \in S}

NotAList == [isList |-> FALSE, items |-> <<>>]
AssetList(items) == [isList |-> TRUE, items |-> items]

Response(status, tag, assets) == [status |-> status, tag_name |-> tag, assets |-> assets]

NoResponse == Response("none", PyNone, NotAList)

FetchErrors == {Response("HTTPError", PyNone, NotAList), Response("URLError", PyNone, NotAList)}

UntaggedReleases ==
    {Response("ok", t, NotAList) : t \in {PyNone, Str(<<>>), Str(<<" ">>)}}

FocusReleases ==
    {Response("ok", t, a) :
        t \in {Str(<<"v1">>), Str(<<" ", "v2">>)},
        a \in {NotAList} \cup {AssetList(q) : q \in SeqsUpTo(AssetPool, MaxAssets)}}

OtherReleases == {Response("ok", Str(<<"v1">>), NotAList)}

Responses(i) ==
    FetchErrors \cup (IF i = focus THEN UntaggedReleases \cup FocusReleases ELSE OtherReleases)

\* the writes and removals of the local disk fail only while the focus
\* repository is synchronised (its downloads can fail for every repository
\* that has assets)
StorageFault(i) == i = focus

Tokens == {PyNone, Str(<<>>), Str(<<"tok">>)}

(***************************************************************************)
(* The file system under TARGET_ROOT                                       *)
(***************************************************************************)
NoObj == [repository |-> <<>>, tag |-> <<>>]
Absent == [kind |-> "absent", rel |-> <<>>, text |-> <<>>, obj |-> NoObj]

FileNames ==
    {VersionFile, MetadataFile} \cup
    ({Strip(PyStr(OrEmpty(a.name))) : a \in AssetPool} \ {<<>>})

EmptyFiles == [f \in FileNames |-> Absent]
NoDir == [exists |-> FALSE, files |-> EmptyFiles]
EmptyDir == [exists |-> TRUE, files |-> EmptyFiles]

Present(dir) == {f \in FileNames : dir.files[f].kind # "absent"}

(***************************************************************************)
(* Pure parts of the code                                                  *)
(***************************************************************************)
TokenMissingNoneOnly(tok) == tok.t = "none"
\* if not token
TokenMissing(tok) == tok.t = "none" \/ tok.s = <<>>

TagNameUnstripped(resp) == PyStr(OrEmpty(resp.tag_name))
\* tag_name = str(release.get("tag_name") or "").strip()
TagName(resp) == Strip(PyStr(OrEmpty(resp.tag_name)))

TagNeverMissing(tag) == FALSE
\* if not tag_name
TagMissing(tag) == tag = <<>>

\* assets = release.get("assets"); if not isinstance(assets, list): assets = []
Assets(resp) == IF resp.assets.isList THEN resp.assets.items ELSE <<>>

\* version_file.read_text().strip() if version_file.exists() else ""
CurrentVersion(dir) ==
    IF dir.exists /\ dir.files[VersionFile].kind # "absent"
    THEN Strip(dir.files[VersionFile].text)
    ELSE <<>>

\* current_version == tag_name
UpToDate(dir, tag) == CurrentVersion(dir) = tag

\* asset_name = str(asset.get("name") or "").strip()
AssetName(asset) == Strip(PyStr(OrEmpty(asset.name)))

\* asset_url = str(asset.get("url"))
AssetUrl(asset) == PyStr(asset.url)

\* if not asset_url
UrlMissing(url) == url = <<>>

\* Request(asset_url) raises ValueError for a url without a scheme
UrlTypeKnown(url) == url # <<>> /\ url[1] = "https:"

\* what shutil.copyfileobj(response, file_handle) leaves in the destination
AssetFile(tag, text) == [kind |-> "asset", rel |-> tag, text |-> text, obj |-> NoObj]

MarkerFileNewline(tag) ==
    [kind |-> "marker", rel |-> tag, text |-> Append(tag, "\n"), obj |-> NoObj]
\* version_file.write_text(tag_name)
MarkerFile(tag) == [kind |-> "marker", rel |-> tag, text |-> tag, obj |-> NoObj]

\* metadata_file.write_text(json.dumps({"repository": ..., "tag": tag_name, ...}))
MetadataRecord(repo, tag) ==
    [kind |-> "metadata", rel |-> tag, text |-> <<"{...}">>,
     obj |-> [repository |-> repo, tag |-> tag]]

\* a file that open(..., "w") created or truncated and that was never written
TruncatedFile(kind, tag) == [kind |-> kind, rel |-> tag, text |-> <<>>, obj |-> NoObj]

KeptOnRecreate(dir) == [dir EXCEPT !.exists = TRUE]
\* shutil.rmtree(project_dir) and project_dir.mkdir(): the directory is empty
Recreated(dir) == EmptyDir

NoErr == [kind |-> "none", step |-> "none"]
NoExit == -1
\* sync_repository returns True or False: "True", "False"
NoResult == "none"
NoLast == [tag |-> <<>>, outcome |-> "none"]

Dir(i) == ProjectDir(REPOSITORIES[i])

ContinueOnError(kind, step) ==
    /\ pc' = "returned"
    /\ err' = [kind |-> kind, step |-> step]
    /\ exitCode' = exitCode
\* an exception of sync_repository leaves main() and reaches the handler of
\* __main__, which prints it and calls sys.exit(1)
Abort(kind, step) ==
    /\ pc' = "exited"
    /\ err' = [kind |-> kind, step |-> step]
    /\ exitCode' = 1

(***************************************************************************)
(* The process                                                             *)
(***************************************************************************)
Init ==
    /\ run = 1
    /\ token \in Tokens
    /\ focus \in Positions
    /\ pc = "start"
    /\ idx = 0
    /\ changed = <<>>
    /\ release = NoResponse
    /\ cursor = 0
    /\ result = NoResult
    /\ err = NoErr
    /\ exitCode = NoExit
    /\ requests = 0
    /\ contacted = <<>>
    /\ rootDir = FALSE
    /\ fs = [d \in DirNames |-> NoDir]
    /\ last = [i \in Positions |-> NoLast]

\* main(): the token check, TARGET_ROOT.mkdir, changed = []
MainStart ==
    /\ pc = "start"
    /\ IF TokenMissing(token)
       THEN /\ pc' = "exited"
            /\ err' = [kind |-> "ConfigError", step |-> "main"]
            /\ exitCode' = 1
            /\ UNCHANGED <<rootDir, idx, changed>>
       ELSE /\ pc' = "loop"
            /\ rootDir' = TRUE
            /\ idx' = 1
            /\ changed' = <<>>
            /\ UNCHANGED <<err, exitCode>>
    /\ UNCHANGED <<run, token, focus, release, cursor, result, requests,
                   contacted, fs, last>>

\* sync_repository up to the comparison with the stored version
SyncBegin ==
    /\ pc = "loop"
    /\ idx <= Len(REPOSITORIES)
    /\ \E resp \in Responses(idx) :
        /\ release' = resp
        /\ requests' = requests + 1
        /\ contacted' = Append(contacted, idx)
        /\ cursor' = 1
        /\ IF resp.status # "ok"
           THEN /\ Abort("NetworkError", "fetch")
                /\ last' = [last EXCEPT ![idx] = NoLast]
                /\ UNCHANGED result
           ELSE IF TagMissing(TagName(resp))
           THEN /\ Abort("MetadataError", "validate")
                /\ last' = [last EXCEPT ![idx] = NoLast]
                /\ UNCHANGED result
           ELSE IF UpToDate(fs[Dir(idx)], TagName(resp))
           THEN /\ pc' = "returned"
                /\ result' = "False"
                /\ last' = [last EXCEPT ![idx] = [tag |-> TagName(resp), outcome |-> "ok"]]
                /\ UNCHANGED <<err, exitCode>>
           ELSE /\ pc' = "replace"
                /\ UNCHANGED <<result, err, exitCode, last>>
    /\ UNCHANGED <<run, token, focus, idx, changed, rootDir, fs>>

Failed(tag) == [last EXCEPT ![idx] = [tag |-> tag, outcome |-> "failed"]]

\* if project_dir.exists(): shutil.rmtree(project_dir); project_dir.mkdir(...)
ReplaceDir ==
    /\ pc = "replace"
    /\ LET d == Dir(idx)
           tag == TagName(release)
       IN  \/ /\ fs' = [fs EXCEPT ![d] = Recreated(fs[d])]
              /\ pc' = "assets"
              /\ UNCHANGED <<err, exitCode, last>>
           \/ \* rmtree stops at an entry it cannot remove
              /\ fs[d].exists
              /\ StorageFault(idx)
              /\ \E keep \in SUBSET Present(fs[d]) :
                    fs' = [fs EXCEPT ![d].files =
                              [f \in FileNames |-> IF f \in keep THEN fs[d].files[f] ELSE Absent]]
              /\ Abort("OSError", "replace")
              /\ last' = Failed(tag)
           \/ \* mkdir fails
              /\ StorageFault(idx)
              /\ fs' = [fs EXCEPT ![d] = NoDir]
              /\ Abort("OSError", "replace")
              /\ last' = Failed(tag)
    /\ UNCHANGED <<run, token, focus, idx, changed, release, cursor, result, requests,
                   contacted, rootDir>>

\* one iteration of `for asset in assets`, download_asset included
DownloadNext ==
    /\ pc = "assets"
    /\ cursor <= Len(Assets(release))
    /\ LET d == Dir(idx)
           tag == TagName(release)
           asset == Assets(release)[cursor]
           name == AssetName(asset)
           url == AssetUrl(asset)
       IN  IF name = <<>>
           THEN \* continue
                /\ cursor' = cursor + 1
                /\ UNCHANGED <<pc, err, exitCode, requests, fs, last>>
           ELSE IF UrlMissing(url)
           THEN /\ Abort("AssetError", "download")
                /\ last' = Failed(tag)
                /\ UNCHANGED <<cursor, requests, fs>>
           ELSE IF ~UrlTypeKnown(url)
           THEN /\ Abort("ValueError", "download")
                /\ last' = Failed(tag)
                /\ UNCHANGED <<cursor, requests, fs>>
           ELSE /\ requests' = requests + 1
                /\ \/ \* urlopen fails
                      /\ Abort("URLError", "download")
                      /\ last' = Failed(tag)
                      /\ UNCHANGED <<cursor, fs>>
                   \/ \* the copy stops early: a truncated file stays
                      /\ \E part \in ProperPrefixes(asset.body) :
                            fs' = [fs EXCEPT ![d].files[name] = AssetFile(tag, part)]
                      /\ Abort("OSError", "download")
                      /\ last' = Failed(tag)
                      /\ UNCHANGED cursor
                   \/ /\ fs' = [fs EXCEPT ![d].files[name] = AssetFile(tag, asset.body)]
                      /\ cursor' = cursor + 1
                      /\ UNCHANGED <<pc, err, exitCode, last>>
    /\ UNCHANGED <<run, token, focus, idx, changed, release, result, contacted, rootDir>>

\* version_file.write_text(tag_name, encoding="utf-8")
WriteVersion ==
    /\ pc = "assets"
    /\ cursor > Len(Assets(release))
    /\ LET d == Dir(idx)
           tag == TagName(release)
       IN  \/ /\ fs' = [fs EXCEPT ![d].files[VersionFile] = MarkerFile(tag)]
              /\ pc' = "metadata"
              /\ UNCHANGED <<err, exitCode, last>>
           \/ \* the file cannot be opened
              /\ StorageFault(idx)
              /\ Abort("OSError", "marker")
              /\ last' = Failed(tag)
              /\ UNCHANGED fs
           \/ \* the file is opened and the write fails
              /\ StorageFault(idx)
              /\ fs' = [fs EXCEPT ![d].files[VersionFile] = TruncatedFile("marker", tag)]
              /\ Abort("OSError", "marker")
              /\ last' = Failed(tag)
    /\ UNCHANGED <<run, token, focus, idx, changed, release, cursor, result, requests,
                   contacted, rootDir>>

\* metadata_file.write_text(json.dumps(...)); return True
WriteMetadata ==
    /\ pc = "metadata"
    /\ LET d == Dir(idx)
           tag == TagName(release)
       IN  \/ /\ fs' = [fs EXCEPT ![d].files[MetadataFile] =
                                     MetadataRecord(REPOSITORIES[idx], tag)]
              /\ pc' = "returned"
              /\ result' = "True"
              /\ last' = [last EXCEPT ![idx] = [tag |-> tag, outcome |-> "ok"]]
              /\ UNCHANGED <<err, exitCode>>
           \/ /\ StorageFault(idx)
              /\ Abort("OSError", "metadata")
              /\ last' = Failed(tag)
              /\ UNCHANGED <<fs, result>>
           \/ /\ StorageFault(idx)
              /\ fs' = [fs EXCEPT ![d].files[MetadataFile] = TruncatedFile("metadata", tag)]
              /\ Abort("OSError", "metadata")
              /\ last' = Failed(tag)
              /\ UNCHANGED result
    /\ UNCHANGED <<run, token, focus, idx, changed, release, cursor, requests,
                   contacted, rootDir>>

\* main(): if changed_flag: changed.append(...); next repository
MainCollect ==
    /\ pc = "returned"
    /\ changed' = IF result = "True" THEN Append(changed, idx) ELSE changed
    /\ idx' = idx + 1
    /\ pc' = "loop"
    /\ release' = NoResponse
    /\ cursor' = 0
    /\ result' = NoResult
    /\ UNCHANGED <<run, token, focus, err, exitCode, requests, contacted, rootDir, fs, last>>

\* main() returns after the summary: the process ends with code 0
MainFinish ==
    /\ pc = "loop"
    /\ idx > Len(REPOSITORIES)
    /\ pc' = "exited"
    /\ exitCode' = 0
    /\ UNCHANGED <<run, token, focus, idx, changed, release, cursor, result, err,
                   requests, contacted, rootDir, fs, last>>

\* the script is started again, on the directories the previous run left
NextRun ==
    /\ pc = "exited"
    /\ run < MaxRuns
    /\ run' = run + 1
    /\ token' \in Tokens
    /\ pc' = "start"
    /\ idx' = 0
    /\ changed' = <<>>
    /\ release' = NoResponse
    /\ cursor' = 0
    /\ result' = NoResult
    /\ err' = NoErr
    /\ exitCode' = NoExit
    /\ requests' = 0
    /\ contacted' = <<>>
    /\ UNCHANGED <<focus, rootDir, fs, last>>

Next ==
    \/ MainStart
    \/ SyncBegin
    \/ ReplaceDir
    \/ DownloadNext
    \/ WriteVersion
    \/ WriteMetadata
    \/ MainCollect
    \/ MainFinish
    \/ NextRun

Spec == Init /\ [][Next]_vars

(***************************************************************************)
(* Properties                                                              *)
(***************************************************************************)
\* the step that requests the release metadata of the repository at idx
Fetching == pc = "loop" /\ requests' # requests

\* version.txt of a directory holds exactly this text
MarkerIs(dir, text) ==
    /\ dir.exists
    /\ dir.files[VersionFile].kind # "absent"
    /\ dir.files[VersionFile].text = text

\* C1: when version.txt of the repository holds the tag of the fetched release,
\* sync_repository returns False at once and changes nothing on disk; and when
\* the previous call for the repository completed for a release with the same
\* tag, this call returns False and leaves every directory as it was.
C1_Idempotence ==
    [][ ( /\ Fetching
          /\ release'.status = "ok"
          /\ TagName(release') # <<>>
          /\ \/ MarkerIs(fs[Dir(idx)], TagName(release'))
             \/ last[idx] = [tag |-> TagName(release'), outcome |-> "ok"] )
        => ( /\ pc' = "returned"
             /\ result' = "False"
             /\ fs' = fs
             /\ rootDir' = rootDir ) ]_vars

\* a second run has found the focus repository, assets included, up to date
C1_Witness ==
    /\ run > 1
    /\ pc = "returned"
    /\ result = "False"
    /\ idx = focus
    /\ last[idx].outcome = "ok"
    /\ Cardinality(Present(fs[Dir(idx)])) >= 3

\* C2 (as claimed): in every directory a run has left behind, a version.txt
\* that names a version comes only with asset files of the release it names.
C2_MarkerMatchesAssets ==
    pc = "exited" =>
        \A d \in DirNames :
            CurrentVersion(fs[d]) # <<>> =>
                \A f \in Present(fs[d]) :
                    fs[d].files[f].kind = "asset" =>
                        fs[d].files[f].rel = CurrentVersion(fs[d])

\* a call of sync_repository failed after the directory began to be replaced
FailedInReplace == err.step \in {"replace", "download", "marker", "metadata"}

\* the marker update of sync_repository has happened in this directory
MarkerWritten(dir) ==
    /\ dir.exists
    /\ dir.files[VersionFile].kind = "marker"
    /\ dir.files[VersionFile].text # <<>>

\* C3 (as claimed): a run that fails in steps 6-9 leaves no version marker, and
\* the next call for the same release does not report "unchanged" but re-syncs.
C3_FailureLeavesNoMarker ==
    [][ /\ (pc' = "exited" /\ pc # "exited" /\ FailedInReplace')
            => ~MarkerWritten(fs'[Dir(idx)])
        /\ ( /\ Fetching
             /\ release'.status = "ok"
             /\ last[idx] = [tag |-> TagName(release'), outcome |-> "failed"] )
            => pc' = "replace" ]_vars

\* C4: a call that returns True has left version.txt holding exactly the tag
\* the code extracted (tag_name, stripped) and metadata.json with that tag; a
\* call that returns False found the stored version equal to the tag.
C4_MarkerEqualsTag ==
    pc = "returned" =>
        LET dir == fs[Dir(idx)]
            tag == TagName(release)
        IN  \/ /\ result = "True"
               /\ MarkerIs(dir, tag)
               /\ dir.files[MetadataFile].obj.tag = tag
               /\ dir.files[MetadataFile].obj.repository = REPOSITORIES[idx]
            \/ /\ result = "False"
               /\ dir.exists
               /\ dir.files[VersionFile].kind # "absent"
               /\ Strip(dir.files[VersionFile].text) = tag

\* a release whose tag_name carries a blank was synced and reported changed
C4_Witness ==
    /\ pc = "returned"
    /\ result = "True"
    /\ release.tag_name = Str(<<" ", "v2">>)
    /\ Assets(release) # <<>>
    /\ fs[Dir(idx)].files[VersionFile].text = <<"v2">>

\* C5: when the metadata request fails, or the release has no tag_name or an
\* empty one, the call raises, the run ends with code 1 and no directory is
\* created or changed.
C5_NoMutationOnMetadataFailure ==
    [][ ( /\ Fetching
          /\ \/ release'.status # "ok"
             \/ release'.tag_name \in {PyNone, Str(<<>>)} )
        => ( /\ pc' = "exited"
             /\ exitCode' = 1
             /\ err'.kind \in {"NetworkError", "MetadataError"}
             /\ result' = result
             /\ fs' = fs ) ]_vars

\* a release without tag was met while the directory of the repository held files
C5_Witness ==
    /\ pc = "exited"
    /\ err.kind = "MetadataError"
    /\ release.tag_name = PyNone
    /\ Cardinality(Present(fs[Dir(idx)])) >= 2

\* the file names a release gives its assets, as the code reads them
NamedAssets(resp) ==
    {AssetName(Assets(resp)[k]) : k \in 1..Len(Assets(resp))} \ {<<>>}

\* C6: after a call that returns True the directory holds version.txt,
\* metadata.json and one file per non-empty asset name of the release, every
\* file written for this release; with no asset list it holds the two records.
C6_DirectoryHoldsTheRelease ==
    (pc = "returned" /\ result = "True") =>
        LET dir == fs[Dir(idx)]
        IN  /\ dir.exists
            /\ Present(dir) = {VersionFile, MetadataFile} \cup NamedAssets(release)
            /\ \A f \in Present(dir) : dir.files[f].rel = TagName(release)
            /\ (~release.assets.isList \/ release.assets.items = <<>>)
                  => Present(dir) = {VersionFile, MetadataFile}

\* a release with a nameless asset and a named one was synced over a directory
C6_Witness ==
    /\ run > 1
    /\ pc = "returned"
    /\ result = "True"
    /\ \E k \in 1..Len(Assets(release)) : AssetName(Assets(release)[k]) = <<>>
    /\ Cardinality(Present(fs[Dir(idx)])) = 3

\* C7 (as claimed): download_asset of an asset whose url is absent, null or
\* empty fails with the asset error, without a request and without touching
\* the destination.
C7_MissingUrlIsAssetError ==
    [][ ( /\ pc = "assets"
          /\ cursor <= Len(Assets(release))
          /\ AssetName(Assets(release)[cursor]) # <<>>
          /\ Assets(release)[cursor].url \in {PyNone, Str(<<>>)} )
        => ( /\ err'.kind = "AssetError"
             /\ requests' = requests
             /\ fs' = fs ) ]_vars

\* C8: with the token absent or empty the run ends at once with code 1 and the
\* credential error; no request is made and nothing on disk changes.
C8_FailFastWithoutToken ==
    [][ ( /\ pc = "start"
          /\ token \in {PyNone, Str(<<>>)} )
        => ( /\ pc' = "exited"
             /\ exitCode' = 1
             /\ err' = [kind |-> "ConfigError", step |-> "main"]
             /\ requests' = 0
             /\ contacted' = <<>>
             /\ fs' = fs
             /\ rootDir' = rootDir ) ]_vars

\* a run without token ended while directories of an earlier run existed
C8_Witness ==
    /\ pc = "exited"
    /\ err.kind = "ConfigError"
    /\ token = Str(<<>>)
    /\ \E d \in DirNames : fs[d].exists

\* the contacts of a run follow the list, an error ends the run with code 1 at
\* the position it occurred, and code 0 means every call completed
C9_Order ==
    /\ contacted = [k \in 1..Len(contacted) |-> k]
    /\ Len(contacted) <= Len(REPOSITORIES)
    /\ err.kind # "none" => (pc = "exited" /\ exitCode = 1)
    /\ (pc = "exited" /\ err.kind \notin {"none", "ConfigError"})
          => (idx \in Positions /\ Len(contacted) = idx)
    /\ exitCode = 0
          => /\ err = NoErr
             /\ Len(contacted) = Len(REPOSITORIES)
             /\ \A i \in Positions : last[i].outcome = "ok"

\* C9: the repositories are contacted in the order of the list, each at most
\* once; an error of sync_repository ends the run with code 1 at the position
\* it occurred, with no later repository contacted or changed and the earlier
\* directories as their calls left them; code 0 means every repository was
\* synchronised without error.
C9_AbortOnFirstError ==
    /\ []C9_Order
    /\ [][ /\ \A j \in Positions :
                fs'[Dir(j)] # fs[Dir(j)] => (j = idx /\ j = contacted[Len(contacted)])
           /\ pc = "exited" => (fs' = fs /\ run' # run)
           /\ (run' = run /\ idx # 0) => idx' \in {idx, idx + 1} ]_vars

\* a run stopped at a repository in the middle of the list, after others were synced
C9_Witness ==
    /\ pc = "exited"
    /\ exitCode = 1
    /\ idx = 3
    /\ changed = <<1, 2>>
    /\ ~fs[Dir(4)].exists

\* C10: a step of sync_repository for one repository leaves the directory of
\* every other repository of the list as it was.
C10_Frame ==
    [][ \A i, j \in Positions :
            (REPOSITORIES[i] # REPOSITORIES[j] /\ idx = i)
                => fs'[Dir(j)] = fs[Dir(j)] ]_vars

\* the focus repository was re-synced while the other directories existed
C10_Witness ==
    /\ run > 1
    /\ pc = "returned"
    /\ result = "True"
    /\ idx = focus
    /\ \A j \in Positions : fs[Dir(j)].exists

====
